---- MODULE Spec2Model ----
(***************************************************************************)
(* StudyBuddy (src/studyBuddy.jsx): the App shell with its document        *)
(* selection and text extractor, the Firebase setup, the store of          *)
(* attempts and its progress listener, the QuizGenerator component with    *)
(* the fetchQuiz retry loop, and the ChatUI component with the             *)
(* fetchChatResponse retry loop.                                           *)
(*                                                                         *)
(* One event-loop task (a click, a timer, a promise continuation together  *)
(* with the React render and effects it causes) is one action.  A pending  *)
(* async call is a record holding the closure it captured and its place    *)
(* in the retry loop.  Strings are kept by what the code reads of them:    *)
(* a document text by its origin and length.                               *)
(***************************************************************************)
EXTENDS Integers, Sequences, FiniteSets, TLC

VARIABLES
    \* useFirebaseSetup: db (whether set), userId, isLoading; whether App
    \* is mounted
    db, userId, isFirebaseLoading, appMounted,
    \* Date.now(), and the documents of each user's quizzes collection in
    \* the order they were written
    now, store,
    \* useProgressData: the active onSnapshot listeners, progress, and the
    \* documents of the last snapshot handed to a listener
    listeners, progress, snapshot,
    \* App
    activeView, pdfs, selectedPdf,
    \* usePdfTextExtractor
    text, loading, extractTimer,
    \* QuizGenerator
    quizData, currentAnswers, quizLoading, quizType, isSubmitted, score,
    explanation,
    \* pending handleGenerate calls of the mounted QuizGenerator
    quizCalls,
    \* the attempts saveProgress wrote to the store
    saved,
    \* ChatUI
    chatList, activeChatId, inputMessage, isTyping,
    \* pending handleSendMessage calls of the mounted ChatUI, messages sent,
    \* Date.now() source
    chatCalls, nSends, nChats,
    \* history: the last event-loop task, whether the shown QuestionSet has
    \* been submitted since it was generated, and the kind handleGenerate
    \* passed to fetchQuiz for the shown QuestionSet
    ev, everSubmitted, generatedKind

fireVars == <<db, userId, isFirebaseLoading, appMounted>>
progVars == <<listeners, progress, snapshot>>
sessionVars == <<fireVars, progVars, now, store>>
appVars  == <<activeView, pdfs, selectedPdf>>
docVars  == <<text, loading, extractTimer>>
quizVars == <<quizData, currentAnswers, quizLoading, quizType, isSubmitted,
              score, explanation>>
quizEnv  == <<quizCalls, saved, everSubmitted, generatedKind>>
chatVars == <<chatList, activeChatId, inputMessage, isTyping>>
chatEnv  == <<chatCalls, nSends, nChats>>
vars     == <<sessionVars, appVars, docVars, quizVars, quizEnv, chatVars,
              chatEnv, ev>>

----------------------------------------------------------------------------
\* Bounds of the model.
MaxPending == 2
MaxSends   == 2
MaxChats   == 2
MaxSubmits == 1
MaxUploads == 2
MaxRemote  == 1

\* Program constants.
MaxAttempts == 3
MinTextLen  == 50
MockLen     == 1400
ContextBudget == 2500

Views == {"PDF", "QUIZ", "CHAT", "DASHBOARD"}
QuizTypes == {"mcq", "saq", "laq"}

Undefined == "undefined"

\* userId: null, or the uid of a signed-in user.
NoUser == 0

Users == {1, 2}

\* The values of Date.now(), here and in the user's other sessions.
Times == {0, 1}

\* The shell is rendered: App is mounted and past its loading screen.
ShellShown == appMounted /\ ~isFirebaseLoading

\* saveProgress and useProgressData go on only with a store and a user.
HasStore == db /\ userId # NoUser

Pow2(n) == IF n = 0 THEN 1 ELSE IF n = 1 THEN 2 ELSE IF n = 2 THEN 4 ELSE 8

----------------------------------------------------------------------------
\* Document texts.  MOCK_NCERT_TEXT has 1400 characters; the text the
\* extractor yields for an uploaded file stands for the file's content (the
\* source holds a placeholder for the pdf parser), so its length is an input.
NoText   == [doc |-> "none", len |-> 0]
MockText == [doc |-> "mock", len |-> MockLen]
ExtractLens == {40, 50, 51}
UploadText(n) == [doc |-> "upload", len |-> n]

MockPdf == 0

\* QuizGenerator: isQuizReady, hasQuiz
isQuizReady_NoLength == ~loading /\ text.len > 0

isQuizReady == ~loading /\ text.len > 0 /\ text.len > MinTextLen

NullQuiz == [null |-> TRUE, quizTitle |-> "", questions |-> <<>>]

hasQuiz == ~quizData.null /\ Len(quizData.questions) > 0

NoAnswers == [k \in {} |-> ""]

NoExplanation == [title |-> "", kind |-> "", items |-> <<>>]

\* The disabled attribute of the Generate button.
GenerateButtonEnabled == isQuizReady /\ ~quizLoading

----------------------------------------------------------------------------
\* What the generation API may answer to one fetch: the request fails in
\* transit, a non-success status, a body with no text part, a text that is
\* not JSON, or a text that parses to a value.
McqQ(rid, ans) ==
    [id |-> rid, type |-> "mcq", options |-> <<"A", "B", "C", "D">>,
     correctAnswer |-> ans, modelAnswer |-> Undefined]

TextQ(rid, t) ==
    [id |-> rid, type |-> t, options |-> <<>>,
     correctAnswer |-> Undefined, modelAnswer |-> "model"]

RespMcq == [hasQuestions |-> TRUE, quizTitle |-> "Mcq quiz",
            questions |-> <<McqQ("q1", "A"), McqQ("q2", "B"), McqQ("q3", "C")>>]

RespSaq == [hasQuestions |-> TRUE, quizTitle |-> "Saq quiz",
            questions |-> <<TextQ("q1", "saq"), TextQ("q2", "saq")>>]

\* A JSON value without a questions array.
RespNoQuestions == [hasQuestions |-> FALSE, quizTitle |-> "Untitled",
                    questions |-> <<>>]

QuizResponses == {RespMcq, RespSaq, RespNoQuestions}

FailureKinds == {"network", "http", "noText", "parse"}

QuizOutcomes == {[kind |-> k, value |-> RespNoQuestions] : k \in FailureKinds}
                \cup {[kind |-> "ok", value |-> r] : r \in QuizResponses}

\* fetchQuiz, the body of one try: TRUE when it throws into the catch.
QuizAttemptThrows_NoTextReturns(o) == o.kind \in {"network", "http", "parse"}

QuizAttemptThrows(o) == o.kind \in {"network", "http", "noText", "parse"}

\* The catch of both retry loops: after the attempt numbered i (from 0)
\* failed, give up or wait.
GivesUp_Two(i) == i >= 1

GivesUp(i) == i = MaxAttempts - 1

\* The wait after failed attempt i, in seconds.
BackoffSeconds_Const(i) == 1

BackoffSeconds(i) == Pow2(i)

\* How the exhausted loop leaves the function.
FetchQuizExhausted == "throw"

FetchChatExhausted_Throws == "throw"

FetchChatExhausted == "return"

\* String lengths of the answers the model types.
StrLen(s) == CASE s = "" -> 0
               [] s \in {"A", "B", "C", "D"} -> 1
               [] s = "abc" -> 3
               [] s = "abcde" -> 5
               [] s = "abcdef" -> 6
               [] s = "It is unification." -> 18
               [] OTHER -> 9

TextInputs == {"It is unification."}

\* Every text the model may type into an answer box.
TextAnswers == {"", "abcde", "abcdef", "It is unification."}

\* The options the model clicks.
PickedOptions == {"A"}

----------------------------------------------------------------------------
\* The last event-loop task.
NoAttempt == [type |-> "", score |-> 0, total |-> 0, timestamp |-> 0,
              quizTitle |-> ""]

BaseEv == [op |-> "init", accepted |-> TRUE, alert |-> FALSE, call |-> 0, kind |-> "",
           outcome |-> "", i |-> 0, attempts |-> 0, waits |-> <<>>,
           attempt |-> NoAttempt]

Op(name) == [BaseEv EXCEPT !.op = name]

NewQuizCall(n, prior, kind) ==
    [id |-> n, i |-> 0, phase |-> "fetch", attempts |-> 1,
     waits |-> <<>>, delay |-> 0, quizType |-> kind, prior |-> prior]

\* The smallest call id no pending call of the set uses.
FreshCall(calls) ==
    CHOOSE n \in 1..(Cardinality(calls) + 1) :
        /\ \A c \in calls : c.id # n
        /\ \A m \in 1..(n - 1) : \E c \in calls : c.id = m

\* handleGenerate past its readiness guard, up to the first await: the
\* state resets and the first fetch of fetchQuiz is issued.
StartGenerate(prior, kind) ==
    /\ quizLoading' = TRUE
    /\ quizData' = NullQuiz
    /\ isSubmitted' = FALSE
    /\ score' = 0
    /\ explanation' = NoExplanation
    /\ quizCalls' = quizCalls \cup {NewQuizCall(FreshCall(quizCalls), prior, kind)}
    /\ everSubmitted' = FALSE
    /\ generatedKind' = ""

\* handleGenerate as called from a render whose isQuizReady is `ready` and
\* whose state is (prior, answers, kind).
handleGenerate(ready, prior, answers, kind) ==
    IF ~ready
    THEN /\ quizData' = prior
         /\ currentAnswers' = answers
         /\ quizType' = kind
         /\ UNCHANGED <<quizLoading, isSubmitted, score, explanation, quizEnv>>
    ELSE /\ StartGenerate(prior, kind)
         /\ currentAnswers' = answers
         /\ quizType' = kind
         /\ UNCHANGED saved

\* The effect with dependency [isQuizReady], run after a render in which
\* the document state changed while QuizGenerator stays mounted.
AutoGenerateEffect ==
    IF isQuizReady' # isQuizReady /\ isQuizReady' /\ ~hasQuiz
    THEN handleGenerate(isQuizReady', quizData, currentAnswers, quizType)
    ELSE UNCHANGED <<quizVars, quizEnv>>

\* QuizGenerator mounts: useState initial values, then the effect.
QuizMount ==
    IF isQuizReady'
    THEN handleGenerate(isQuizReady', NullQuiz, NoAnswers, "mcq")
    ELSE /\ quizData' = NullQuiz
         /\ currentAnswers' = NoAnswers
         /\ quizLoading' = FALSE
         /\ quizType' = "mcq"
         /\ isSubmitted' = FALSE
         /\ score' = 0
         /\ explanation' = NoExplanation
         /\ everSubmitted' = FALSE
         /\ generatedKind' = ""
         /\ UNCHANGED <<quizCalls, saved>>

\* QuizGenerator unmounts: its state is gone.  Its pending calls go on
\* without a component to update (React drops their state updates), so
\* they are left out from here on.
QuizUnmount ==
    /\ quizData' = NullQuiz
    /\ currentAnswers' = NoAnswers
    /\ quizLoading' = FALSE
    /\ quizType' = "mcq"
    /\ isSubmitted' = FALSE
    /\ score' = 0
    /\ explanation' = NoExplanation
    /\ everSubmitted' = FALSE
    /\ generatedKind' = ""
    /\ quizCalls' = {}
    /\ UNCHANGED saved

----------------------------------------------------------------------------
\* ChatUI.
InitialChatList == <<[id |-> 1, history |-> <<>>]>>

ChatIds == {chatList[k].id : k \in DOMAIN chatList}

\* activeChat: chatList.find(c => c.id === activeChatId) || chatList[0]
activeChat ==
    IF activeChatId \in ChatIds
    THEN chatList[CHOOSE k \in DOMAIN chatList : chatList[k].id = activeChatId]
    ELSE chatList[1]

ChatInputs == {"", " ", "hi"}

Trim(s) == IF s = " " THEN "" ELSE s

UserMessage(s) == [role |-> "user", text |-> s, sources |-> <<>>]

AssistantMessage(t, srcs) == [role |-> "assistant", text |-> t, sources |-> srcs]

FallbackText == "I'm having trouble connecting right now. Please try again later."

NoReplyText == "Sorry, I couldn't generate a response."

CatchText == "Error fetching response. Try again."

\* groundingAttributions of a response: web.uri may be missing.
Attributions == <<[uri |-> "u1", title |-> "t1"], [uri |-> Undefined, title |-> "t2"]>>

ChatOutcomes == {[kind |-> k, text |-> "", attrs |-> <<>>] : k \in {"network", "http", "noText"}}
                \cup {[kind |-> "ok", text |-> "reply", attrs |-> Attributions]}

\* fetchChatResponse, the body of one try: TRUE when it throws into the catch.
ChatAttemptThrows(o) == o.kind \in {"network", "http"}

\* sources: the attributions mapped to {uri, title}, those without uri dropped.
Sources(attrs) == SelectSeq(attrs, LAMBDA a : a.uri # Undefined)

\* The value a try of fetchChatResponse returns when it does not throw.
ChatValue(o) ==
    [text |-> IF o.kind = "noText" \/ o.text = "" THEN NoReplyText ELSE o.text,
     sources |-> Sources(o.attrs)]

\* useGoogleSearch
useGoogleSearch(pdfText, msg) == pdfText.len = 0 \/ msg = "recent news"

\* prev.map(c => c.id === id ? {...c, history: h} : c)
WithHistory(list, id, h) ==
    [k \in DOMAIN list |->
        IF list[k].id = id THEN [list[k] EXCEPT !.history = h] ELSE list[k]]

ChatUnmount ==
    /\ chatList' = InitialChatList
    /\ activeChatId' = 1
    /\ inputMessage' = ""
    /\ isTyping' = FALSE
    /\ chatCalls' = {}
    /\ UNCHANGED <<nSends, nChats>>

----------------------------------------------------------------------------
\* App after its first render and mount effects, with the Firebase
\* modules present: useFirebaseSetup has set db and waits for the first
\* auth callback behind the loading screen; the extractor has set the text
\* of the built-in document.
Init ==
    /\ db = TRUE
    /\ userId = NoUser
    /\ isFirebaseLoading = TRUE
    /\ appMounted = TRUE
    /\ now = 0
    /\ store = [u \in Users |-> <<>>]
    /\ listeners = {}
    /\ progress = <<>>
    /\ snapshot = {}
    /\ activeView = "PDF"
    /\ pdfs = <<MockPdf>>
    /\ selectedPdf = MockPdf
    /\ text = MockText
    /\ loading = FALSE
    /\ extractTimer = 0
    /\ quizData = NullQuiz
    /\ currentAnswers = NoAnswers
    /\ quizLoading = FALSE
    /\ quizType = "mcq"
    /\ isSubmitted = FALSE
    /\ score = 0
    /\ explanation = NoExplanation
    /\ quizCalls = {}
    /\ saved = <<>>
    /\ chatList = InitialChatList
    /\ activeChatId = 1
    /\ inputMessage = ""
    /\ isTyping = FALSE
    /\ chatCalls = {}
    /\ nSends = 0
    /\ nChats = 1
    /\ ev = BaseEv
    /\ everSubmitted = FALSE
    /\ generatedKind = ""

\* A view change mounts and unmounts the view's component.
Remount(v) ==
    /\ IF activeView = "QUIZ" /\ v # "QUIZ" THEN QuizUnmount
       ELSE IF activeView # "QUIZ" /\ v = "QUIZ" THEN QuizMount
       ELSE UNCHANGED <<quizVars, quizEnv>>
    /\ IF activeView = "CHAT" /\ v # "CHAT" THEN ChatUnmount
       ELSE UNCHANGED <<chatVars, chatEnv>>

\* Sidebar navigation: setActiveView(item.view)
SetActiveView(v) ==
    /\ ShellShown
    /\ v # activeView
    /\ activeView' = v
    /\ UNCHANGED <<pdfs, selectedPdf, docVars>>
    /\ Remount(v)
    /\ ev' = Op("setActiveView")
    /\ UNCHANGED sessionVars

\* usePdfTextExtractor's effect for a newly selected uploaded file.
StartExtraction(p) ==
    /\ loading' = TRUE
    /\ text' = NoText
    /\ extractTimer' = p

\* The uploaded document where one name serves every upload; where
\* uploads are told apart, the n-th is named n.
NewPdf == 1

NextUpload == IF Len(pdfs) = 1 THEN 1 ELSE pdfs[Len(pdfs)] + 1

\* prev.filter(p => p.type !== 'user'): only the built-in document is not
\* of type user.
KeptPdfs_All(list) == list

KeptPdfs(list) == SelectSeq(list, LAMBDA p : p = MockPdf)

\* handleFileUpload with a file chosen, newPdf being f, and the extractor
\* effect it causes.
FileUpload(f) ==
    /\ ShellShown
    /\ pdfs' = Append(KeptPdfs(pdfs), f)
    /\ selectedPdf' = f
    /\ StartExtraction(f)
    /\ UNCHANGED activeView
    /\ IF activeView = "QUIZ" THEN AutoGenerateEffect
       ELSE UNCHANGED <<quizVars, quizEnv>>
    /\ UNCHANGED <<chatVars, chatEnv>>
    /\ ev' = Op("fileUpload")
    /\ UNCHANGED sessionVars

\* handlePdfSelect, and the extractor effect when the selection changes:
\* the cleanup clears the timer; the built-in document sets its text and
\* returns before touching loading.
PdfSelect(p) ==
    /\ ShellShown
    /\ p \in {pdfs[k] : k \in DOMAIN pdfs}
    /\ selectedPdf' = p
    /\ activeView' = "PDF"
    /\ UNCHANGED pdfs
    /\ IF p = selectedPdf THEN UNCHANGED docVars
       ELSE IF p = MockPdf
            THEN /\ text' = MockText
                 /\ extractTimer' = 0
                 /\ UNCHANGED loading
            ELSE StartExtraction(p)
    /\ Remount("PDF")
    /\ ev' = Op("pdfSelect")
    /\ UNCHANGED sessionVars

\* The extractor's timer fires: setText(extracted), setLoading(false).
ExtractionDone(n) ==
    /\ extractTimer # 0
    /\ text' = UploadText(n)
    /\ loading' = FALSE
    /\ extractTimer' = 0
    /\ activeView = "QUIZ" /\ isQuizReady' /\ ~hasQuiz
           => Cardinality(quizCalls) < MaxPending
    /\ UNCHANGED appVars
    /\ IF activeView = "QUIZ" THEN AutoGenerateEffect
       ELSE UNCHANGED <<quizVars, quizEnv>>
    /\ UNCHANGED <<chatVars, chatEnv>>
    /\ ev' = Op("extractionDone")
    /\ UNCHANGED sessionVars

----------------------------------------------------------------------------
\* QuizGenerator handlers.
Mounted(v) == ShellShown /\ activeView = v

\* A click on the Generate button: nothing when the button is disabled.
ClickGenerate ==
    /\ Mounted("QUIZ")
    /\ GenerateButtonEnabled => Cardinality(quizCalls) < MaxPending
    /\ UNCHANGED <<appVars, docVars, chatVars, chatEnv>>
    /\ IF GenerateButtonEnabled
       THEN handleGenerate(isQuizReady, quizData, currentAnswers, quizType)
       ELSE UNCHANGED <<quizVars, quizEnv>>
    /\ ev' = [Op("clickGenerate") EXCEPT !.accepted = GenerateButtonEnabled /\ isQuizReady]
    /\ UNCHANGED sessionVars

\* The question-type select, disabled while loading, not ready or submitted.
SetQuizType(t) ==
    /\ Mounted("QUIZ")
    /\ ~(quizLoading \/ ~isQuizReady \/ isSubmitted)
    /\ t # quizType
    /\ quizType' = t
    /\ UNCHANGED <<quizData, currentAnswers, quizLoading, isSubmitted, score,
                   explanation, quizEnv>>
    /\ ev' = Op("setQuizType")
    /\ UNCHANGED <<appVars, docVars, chatVars, chatEnv>>
    /\ UNCHANGED sessionVars

Put(m, k, v) == [x \in DOMAIN m \cup {k} |-> IF x = k THEN v ELSE m[x]]

\* handleAnswerChange's guard.
AnswerRejected == isSubmitted

\* handleAnswerChange(questionId, value)
handleAnswerChange(questionId, value) ==
    IF AnswerRejected
    THEN UNCHANGED currentAnswers
    ELSE currentAnswers' = Put(currentAnswers, questionId, value)

\* The values the inputs of question q offer.
InputsOf(q) ==
    IF q.type = "mcq"
    THEN {q.options[k] : k \in DOMAIN q.options} \cap PickedOptions
    ELSE TextAnswers

\* An edit of the answer of a shown question.
AnswerChange(k, v) ==
    /\ Mounted("QUIZ")
    /\ hasQuiz
    /\ k \in DOMAIN quizData.questions
    /\ v \in InputsOf(quizData.questions[k])
    /\ handleAnswerChange(quizData.questions[k].id, v)
    /\ ev' = [Op("answerChange") EXCEPT !.accepted = ~AnswerRejected]
    /\ UNCHANGED <<quizData, quizLoading, quizType, isSubmitted, score,
                   explanation, quizEnv>>
    /\ UNCHANGED <<appVars, docVars, chatVars, chatEnv>>
    /\ UNCHANGED sessionVars

\* currentAnswers[q.id]
Ans(answers, id) == IF id \in DOMAIN answers THEN answers[id] ELSE Undefined

Falsy(ua) == ua = Undefined \/ ua = ""

\* handleSubmit's isCorrect
IsCorrect_FiveIsEnough(q, ua) ==
    IF q.type = "mcq"
    THEN ua = q.correctAnswer
    ELSE ~Falsy(ua) /\ StrLen(ua) >= 5

IsCorrect_AnyChoice(q, ua) ==
    IF q.type = "mcq"
    THEN ~Falsy(ua)
    ELSE ~Falsy(ua) /\ StrLen(ua) > 5

IsCorrect(q, ua) ==
    IF q.type = "mcq"
    THEN ua = q.correctAnswer
    ELSE ~Falsy(ua) /\ StrLen(ua) > 5

Min(a, b) == IF a < b THEN a ELSE b

\* One question's lines of the feedback transcript.
Feedback(q, ua) ==
    [your      |-> IF Falsy(ua) THEN "No Answer" ELSE ua,
     shown     |-> IF q.type = "mcq" \/ Falsy(ua) THEN 0 ELSE Min(StrLen(ua), 50),
     canonical |-> IF q.type = "mcq" THEN q.correctAnswer ELSE q.modelAnswer,
     status    |-> IF IsCorrect(q, ua) THEN "CORRECT" ELSE "INCORRECT"]

CorrectCount(qs, answers) ==
    Cardinality({k \in DOMAIN qs : IsCorrect(qs[k], Ans(answers, qs[k].id))})

\* What becomes of the store write of saveProgress: the document is
\* written, setDoc rejects, or there is no store to write to.
WriteOutcomes == {"ok", "rejected", "noStore"}

\* The document setDoc writes under the new docRef: {...attempt, id: docRef.id}.
\* The ids of a collection are told apart by the order of writing.
StoredDoc(attempt, key) == [key |-> key, data |-> [id |-> key] @@ attempt]

Written(docs, attempt) == Append(docs, StoredDoc(attempt, Len(docs) + 1))

\* App.saveProgress: without db or userId it returns at once; a rejected
\* write is caught and logged.
saveProgress(attempt, w) ==
    IF w = "ok"
    THEN /\ saved' = Append(saved, attempt)
         /\ store' = [store EXCEPT ![userId] = Written(@, attempt)]
    ELSE UNCHANGED <<saved, store>>

\* The Attempt handleSubmit hands to saveProgress.
CompletedAttempt_StaleScore ==
    [type |-> quizType,
     score |-> score,
     total |-> Len(quizData.questions),
     timestamp |-> now,
     quizTitle |-> quizData.quizTitle]

CompletedAttempt ==
    [type |-> quizType,
     score |-> CorrectCount(quizData.questions, currentAnswers),
     total |-> Len(quizData.questions),
     timestamp |-> now,
     quizTitle |-> quizData.quizTitle]

\* Whether handleSubmit's local result stands for store outcome w: the
\* state is set before saveProgress is called, saveProgress is not awaited
\* and catches the rejected write itself.
Delivered_OnlyIfWritten(w) == w # "rejected"

Delivered(w) == TRUE

\* handleSubmit: the Submit button is rendered when hasQuiz and not submitted.
Submit(w) ==
    /\ Mounted("QUIZ")
    /\ hasQuiz /\ ~isSubmitted
    /\ w = "noStore" <=> ~HasStore
    /\ w = "ok" => Len(saved) < MaxSubmits
    /\ IF Delivered(w)
       THEN /\ score' = CorrectCount(quizData.questions, currentAnswers)
            /\ explanation' =
                  [title |-> quizData.quizTitle, kind |-> quizType,
                   items |-> [k \in DOMAIN quizData.questions |->
                                 Feedback(quizData.questions[k],
                                          Ans(currentAnswers, quizData.questions[k].id))]]
            /\ isSubmitted' = TRUE
       ELSE UNCHANGED <<score, explanation, isSubmitted>>
    /\ saveProgress(CompletedAttempt, w)
    /\ everSubmitted' = TRUE
    /\ UNCHANGED generatedKind
    /\ ev' = [Op("submit") EXCEPT !.outcome = w, !.attempt = CompletedAttempt]
    /\ UNCHANGED <<quizData, currentAnswers, quizLoading, quizType, quizCalls>>
    /\ UNCHANGED <<appVars, docVars, chatVars, chatEnv>>
    /\ UNCHANGED <<fireVars, progVars, now>>

\* Close Feedback, and the result modal's onClose: setIsSubmitted(false)
CloseFeedback ==
    /\ Mounted("QUIZ")
    /\ isSubmitted
    /\ isSubmitted' = FALSE
    /\ ev' = Op("closeFeedback")
    /\ UNCHANGED <<quizData, currentAnswers, quizLoading, quizType, score,
                   explanation, quizEnv>>
    /\ UNCHANGED <<appVars, docVars, chatVars, chatEnv>>
    /\ UNCHANGED sessionVars

----------------------------------------------------------------------------
\* fetchQuiz's retry loop and the rest of handleGenerate behind its await.

\* questionsWithIds: every question gets a fresh local id.
WithIds(qs, base) == [k \in DOMAIN qs |-> [qs[k] EXCEPT !.id = base + k]]

\* crypto.randomUUID(): ids no shown question and no answer uses; they are
\* b+1, b+2, ... for the smallest such multiple b of 10.
UsedIds == {quizData.questions[k].id : k \in DOMAIN quizData.questions}
           \cup DOMAIN currentAnswers

UuidBase == CHOOSE b \in {10, 20, 30} :
              /\ \A x \in UsedIds : x \div 10 # b \div 10
              /\ \A a \in {10, 20, 30} :
                    a < b => \E x \in UsedIds : x \div 10 = a \div 10

DoneEv(name, c, kind, outcome) ==
    [Op(name) EXCEPT !.call = c.id, !.kind = kind, !.outcome = outcome,
                     !.i = c.i, !.attempts = c.attempts, !.waits = c.waits]

\* handleGenerate's catch: the prior QuestionSet is not put back.
QuizAfterFailure(c) == UNCHANGED quizData

\* The await of fetchQuiz settles for call c: `outcome` is how fetchQuiz
\* left ("value", "throw", or "undefined" when the loop ran out), `value`
\* the parsed response.  Then try / catch / finally of handleGenerate.
GenerateSettled(c, outcome, value, kind) ==
    /\ quizCalls' = quizCalls \ {c}
    /\ IF outcome = "value" /\ value.hasQuestions
       THEN /\ quizData' = [null |-> FALSE, quizTitle |-> value.quizTitle,
                            questions |-> WithIds(value.questions, UuidBase)]
            /\ currentAnswers' = NoAnswers
            /\ generatedKind' = c.quizType
       ELSE /\ QuizAfterFailure(c)
            /\ UNCHANGED <<currentAnswers, generatedKind>>
    /\ quizLoading' = FALSE
    /\ UNCHANGED <<quizType, isSubmitted, score, explanation>>
    /\ ev' = [DoneEv("quizDone", c, kind, outcome) EXCEPT
                 !.accepted = outcome = "value" /\ value.hasQuestions,
                 !.alert = ~(outcome = "value" /\ value.hasQuestions)]
    /\ UNCHANGED <<saved, everSubmitted>>

\* One fetch of call c comes back as o.
QuizAttemptDone(c, o) ==
    /\ c \in quizCalls
    /\ c.phase = "fetch"
    /\ IF QuizAttemptThrows(o)
       THEN IF GivesUp(c.i)
            THEN GenerateSettled(c, FetchQuizExhausted, o.value, o.kind)
            ELSE /\ quizCalls' = (quizCalls \ {c}) \cup
                        {[c EXCEPT !.phase = "sleep", !.delay = BackoffSeconds(c.i)]}
                 /\ ev' = DoneEv("quizAttemptFailed", c, o.kind, "backoff")
                 /\ UNCHANGED <<quizVars, saved, everSubmitted, generatedKind>>
       ELSE GenerateSettled(c, "value", o.value, o.kind)
    /\ UNCHANGED <<appVars, docVars, chatVars, chatEnv>>
    /\ UNCHANGED sessionVars

\* The backoff timer of call c fires: i++ and the next fetch, or the loop
\* runs out and the function returns undefined.
AfterBackoff_SameAttempt(c) == [c EXCEPT !.phase = "fetch", !.delay = 0]

AfterBackoff(c) ==
    [c EXCEPT !.phase = "fetch", !.i = c.i + 1, !.attempts = c.attempts + 1,
              !.waits = Append(c.waits, c.delay), !.delay = 0]

QuizBackoffElapsed(c) ==
    /\ c \in quizCalls
    /\ c.phase = "sleep"
    /\ IF c.i + 1 < MaxAttempts
       THEN /\ quizCalls' = (quizCalls \ {c}) \cup {AfterBackoff(c)}
            /\ ev' = DoneEv("quizRetry", AfterBackoff(c), "", "")
            /\ UNCHANGED <<quizVars, saved, everSubmitted, generatedKind>>
       ELSE GenerateSettled(c, "undefined", RespNoQuestions, "")
    /\ UNCHANGED <<appVars, docVars, chatVars, chatEnv>>
    /\ UNCHANGED sessionVars

----------------------------------------------------------------------------
\* ChatUI handlers.

\* handleSendMessage's guard.
SendRejected_PerThread(msg) ==
    \/ Trim(msg) = ""
    \/ \E c \in chatCalls : c.chatId = activeChat.id

SendRejected_NoBusy(msg) == Trim(msg) = ""

SendRejected(msg) == Trim(msg) = "" \/ isTyping

\* fetchChatResponse: contextPart, fullMessage and contents.  The new
\* entry's text is the context of at most 2500 characters followed by the
\* message.
Contents(history, currentMessage, pdfText) ==
    Append(history,
           [role |-> "user",
            text |-> [context |-> Min(pdfText.len, ContextBudget),
                      message |-> currentMessage],
            sources |-> <<>>])

\* The history handleSendMessage passes to fetchChatResponse.
SentHistory_WithUser == Append(activeChat.history, UserMessage(inputMessage))

SentHistory == activeChat.history

NewChatCall(n) ==
    [id |-> n, i |-> 0, phase |-> "fetch", attempts |-> 1,
     waits |-> <<>>, delay |-> 0, chatId |-> activeChatId,
     history |-> activeChat.history,
     contents |-> Contents(SentHistory, inputMessage, text),
     newHistory |-> Append(activeChat.history, UserMessage(inputMessage)),
     input |-> inputMessage, text |-> text,
     search |-> useGoogleSearch(text, inputMessage)]

\* The input box, disabled while typing.
TypeInput(s) ==
    /\ Mounted("CHAT")
    /\ ~isTyping
    /\ s # inputMessage
    /\ inputMessage' = s
    /\ ev' = Op("typeInput")
    /\ UNCHANGED <<chatList, activeChatId, isTyping, chatEnv>>
    /\ UNCHANGED <<appVars, docVars, quizVars, quizEnv>>
    /\ UNCHANGED sessionVars

\* handleSendMessage up to its await: the user message is appended, the
\* input cleared, isTyping set, the first fetch of fetchChatResponse issued.
SendMessage ==
    /\ Mounted("CHAT")
    /\ ~SendRejected(inputMessage) => nSends < MaxSends
    /\ IF SendRejected(inputMessage)
       THEN UNCHANGED <<chatVars, chatEnv>>
       ELSE /\ chatList' = WithHistory(chatList, activeChatId,
                               Append(activeChat.history, UserMessage(inputMessage)))
            /\ inputMessage' = ""
            /\ isTyping' = TRUE
            /\ nSends' = nSends + 1
            /\ chatCalls' = chatCalls \cup {NewChatCall(FreshCall(chatCalls))}
            /\ UNCHANGED <<activeChatId, nChats>>
    /\ ev' = [Op("sendMessage") EXCEPT !.accepted = ~SendRejected(inputMessage),
                                       !.call = activeChat.id]
    /\ UNCHANGED <<appVars, docVars, quizVars, quizEnv>>
    /\ UNCHANGED sessionVars

\* handleNewChat: the id is Date.now().
NewChat ==
    /\ Mounted("CHAT")
    /\ nChats < MaxChats
    /\ nChats' = nChats + 1
    /\ chatList' = Append(chatList, [id |-> nChats + 1, history |-> <<>>])
    /\ activeChatId' = nChats + 1
    /\ ev' = Op("newChat")
    /\ UNCHANGED <<inputMessage, isTyping, chatCalls, nSends>>
    /\ UNCHANGED <<appVars, docVars, quizVars, quizEnv>>
    /\ UNCHANGED sessionVars

\* A click on a thread of the chat list: setActiveChatId(chat.id)
SwitchChat(id) ==
    /\ Mounted("CHAT")
    /\ id \in ChatIds
    /\ id # activeChatId
    /\ activeChatId' = id
    /\ ev' = Op("switchChat")
    /\ UNCHANGED <<chatList, inputMessage, isTyping, chatEnv>>
    /\ UNCHANGED <<appVars, docVars, quizVars, quizEnv>>
    /\ UNCHANGED sessionVars

\* [...newHistory, assistantMessage]
SettledHistory_DropsUser(c, msg) == Append(c.history, msg)

SettledHistory(c, msg) == Append(c.newHistory, msg)

\* The thread the continuation of handleSendMessage updates: the
\* activeChatId of the render that sent.
ReplyThread_Active(c) == activeChatId

ReplyThread(c) == c.chatId

\* The await of fetchChatResponse settles for call c, then try / catch /
\* finally of handleSendMessage.
SendSettled(c, outcome, value, kind) ==
    /\ chatCalls' = chatCalls \ {c}
    /\ chatList' = WithHistory(chatList, ReplyThread(c),
          SettledHistory(c,
                 IF outcome \in {"value", "return"}
                 THEN AssistantMessage(value.text, value.sources)
                 ELSE AssistantMessage(CatchText, <<>>)))
    /\ isTyping' = FALSE
    /\ UNCHANGED <<activeChatId, inputMessage>>
    /\ ev' = DoneEv("chatDone", c, kind, outcome)
    /\ UNCHANGED <<nSends, nChats>>

ChatAttemptDone(c, o) ==
    /\ c \in chatCalls
    /\ c.phase = "fetch"
    /\ IF ChatAttemptThrows(o)
       THEN IF GivesUp(c.i)
            THEN SendSettled(c, FetchChatExhausted,
                             [text |-> FallbackText, sources |-> <<>>], o.kind)
            ELSE /\ chatCalls' = (chatCalls \ {c}) \cup
                        {[c EXCEPT !.phase = "sleep", !.delay = BackoffSeconds(c.i)]}
                 /\ ev' = DoneEv("chatAttemptFailed", c, o.kind, "backoff")
                 /\ UNCHANGED <<chatVars, nSends, nChats>>
       ELSE SendSettled(c, "value", ChatValue(o), o.kind)
    /\ UNCHANGED <<appVars, docVars, quizVars, quizEnv>>
    /\ UNCHANGED sessionVars

ChatBackoffElapsed(c) ==
    /\ c \in chatCalls
    /\ c.phase = "sleep"
    /\ IF c.i + 1 < MaxAttempts
       THEN /\ chatCalls' = (chatCalls \ {c}) \cup {AfterBackoff(c)}
            /\ ev' = DoneEv("chatRetry", AfterBackoff(c), "", "")
            /\ UNCHANGED <<chatVars, nSends, nChats>>
       ELSE SendSettled(c, "undefined", [text |-> "", sources |-> <<>>], "")
    /\ UNCHANGED <<appVars, docVars, quizVars, quizEnv>>
    /\ UNCHANGED sessionVars

----------------------------------------------------------------------------
\* useFirebaseSetup and useProgressData.

\* onSnapshot's listener on the quizzes collection of user u; seen is the
\* number of documents of the last snapshot it was handed, -1 before the
\* first.
NewListener(ls, u) == [id |-> FreshCall(ls), user |-> u, seen |-> -1]

\* The cleanup of the effect run for store d and user u: unsubscribe() of
\* the listener that run created, when it created one.
EffectCleanup_Keeps(ls, d, u) == ls

EffectCleanup(ls, d, u) ==
    IF d /\ u # NoUser THEN {l \in ls : l.user # u} ELSE ls

\* useProgressData's effect with dependencies [db, userId], after a render
\* with store d and user u: when they changed, the cleanup of the previous
\* run, then the early return or a new onSnapshot.
ProgressEffect(d, u) ==
    IF <<d, u>> = <<db, userId>>
    THEN UNCHANGED listeners
    ELSE LET kept == EffectCleanup(listeners, db, userId) IN
         listeners' = IF d /\ u # NoUser
                      THEN kept \cup {NewListener(kept, u)}
                      ELSE kept

\* The callback of onAuthStateChanged with user u: its first call ends the
\* loading screen; a user sets userId, no user starts the sign-in and
\* leaves userId as it is.  Later calls with nothing to change are left out.
AuthStateChanged(u) ==
    /\ appMounted /\ db
    /\ isFirebaseLoading \/ (u # NoUser /\ u # userId)
    /\ userId' = IF u # NoUser THEN u ELSE userId
    /\ isFirebaseLoading' = FALSE
    /\ ProgressEffect(db, userId')
    /\ UNCHANGED <<db, appMounted, now, store, progress, snapshot>>
    /\ UNCHANGED <<appVars, docVars, quizVars, quizEnv, chatVars, chatEnv>>
    /\ ev' = Op("authStateChanged")

\* Date.now() moves on.
Tick ==
    /\ appMounted
    /\ now + 1 \in Times
    /\ now' = now + 1
    /\ UNCHANGED <<fireVars, progVars, store>>
    /\ UNCHANGED <<appVars, docVars, quizVars, quizEnv, chatVars, chatEnv>>
    /\ ev' = Op("tick")

\* Another session of user u saves an attempt of its own, stamped by its
\* own clock.
RemoteAttempt(ts) ==
    [type |-> "mcq", score |-> 1, total |-> 3, timestamp |-> ts,
     quizTitle |-> "Remote quiz"]

RemoteDocs(docs) ==
    {k \in DOMAIN docs : docs[k].data.quizTitle = "Remote quiz"}

RemoteWrite(u, ts) ==
    /\ appMounted
    /\ Cardinality(RemoteDocs(store[u])) < MaxRemote
    /\ store' = [store EXCEPT ![u] = Written(@, RemoteAttempt(ts))]
    /\ UNCHANGED <<fireVars, progVars, now>>
    /\ UNCHANGED <<appVars, docVars, quizVars, quizEnv, chatVars, chatEnv>>
    /\ ev' = Op("remoteWrite")

\* progressList.sort((a, b) => b.timestamp - a.timestamp): a stable sort,
\* latest first.
RECURSIVE InsertLatestFirst(_, _)
InsertLatestFirst(x, s) ==
    IF s = <<>> THEN <<x>>
    ELSE IF Head(s).timestamp >= x.timestamp
         THEN <<Head(s)>> \o InsertLatestFirst(x, Tail(s))
         ELSE <<x>> \o s

SortLatestFirst_Unsorted(list) == list

RECURSIVE SortLatestFirst(_)
SortLatestFirst(list) ==
    IF list = <<>> THEN <<>>
    ELSE InsertLatestFirst(list[Len(list)],
                           SortLatestFirst(SubSeq(list, 1, Len(list) - 1)))

\* snapshot.docs.map(doc => ({id: doc.id, ...doc.data()}))
ProgressList(docs) ==
    [k \in DOMAIN docs |-> docs[k].data @@ [id |-> docs[k].key]]

\* The orders in which a snapshot may list n documents: the query has no
\* orderBy, so they come by document id, which is random.
Orders(n) == {f \in [1..n -> 1..n] : \A i, j \in 1..n : f[i] = f[j] => i = j}

\* The snapshot callback of listener l with the documents of its collection
\* in one of their orders: setProgress(progressList).
Snapshot(l, order) ==
    /\ l \in listeners
    /\ l.seen # Len(store[l.user])
    /\ LET docs == [k \in DOMAIN order |-> store[l.user][order[k]]] IN
       /\ snapshot' = {docs[k] : k \in DOMAIN docs}
       /\ progress' = SortLatestFirst(ProgressList(docs))
    /\ listeners' = (listeners \ {l})
                       \cup {[l EXCEPT !.seen = Len(store[l.user])]}
    /\ UNCHANGED <<fireVars, now, store>>
    /\ UNCHANGED <<appVars, docVars, quizVars, quizEnv, chatVars, chatEnv>>
    /\ ev' = Op("snapshot")

\* App unmounts: the cleanups of its effects run and the state of every
\* component is gone.
AppUnmount ==
    /\ appMounted
    /\ appMounted' = FALSE
    /\ listeners' = EffectCleanup(listeners, db, userId)
    /\ extractTimer' = 0
    /\ UNCHANGED <<db, userId, isFirebaseLoading, now, store, progress, snapshot>>
    /\ UNCHANGED <<appVars, text, loading>>
    /\ IF activeView = "QUIZ" THEN QuizUnmount ELSE UNCHANGED <<quizVars, quizEnv>>
    /\ IF activeView = "CHAT" THEN ChatUnmount ELSE UNCHANGED <<chatVars, chatEnv>>
    /\ ev' = Op("appUnmount")

----------------------------------------------------------------------------
Nav(S) == \E v \in S : SetActiveView(v)

\* The first auth callback brings the signed-in user.
SignedIn == AuthStateChanged(1)

\* The auth callbacks of one user: none yet at first, then signed in.
SignIn == \E u \in {NoUser, 1} : AuthStateChanged(u)

DocNext ==
    \/ FileUpload(NewPdf)
    \/ \E p \in {MockPdf, NewPdf} : PdfSelect(p)
    \/ \E n \in ExtractLens : ExtractionDone(n)

QuizHandlers ==
    \/ ClickGenerate
    \/ \E t \in {"mcq", "saq"} : SetQuizType(t)
    \/ \E k \in 1..2, v \in TextInputs \cup PickedOptions : AnswerChange(k, v)
    \/ \E w \in WriteOutcomes : Submit(w)
    \/ CloseFeedback

QuizNetwork ==
    \/ \E c \in quizCalls, o \in QuizOutcomes : QuizAttemptDone(c, o)
    \/ \E c \in quizCalls : QuizBackoffElapsed(c)

ChatHandlers ==
    \/ \E s \in ChatInputs : TypeInput(s)
    \/ SendMessage
    \/ NewChat
    \/ \E id \in 1..MaxChats : SwitchChat(id)

ChatNetwork ==
    \/ \E c \in chatCalls, o \in ChatOutcomes : ChatAttemptDone(c, o)
    \/ \E c \in chatCalls : ChatBackoffElapsed(c)

\* The identity of the user, the store and its listeners.
ProgressNext ==
    \/ \E u \in {NoUser} \cup Users : AuthStateChanged(u)
    \/ Tick
    \/ \E u \in Users, ts \in Times : RemoteWrite(u, ts)
    \/ \E l \in listeners :
          \E order \in Orders(Len(store[l.user])) : Snapshot(l, order)
    \/ AppUnmount

\* The whole application.
Next == ProgressNext \/ Nav(Views) \/ DocNext \/ QuizHandlers \/ QuizNetwork
        \/ ChatHandlers \/ ChatNetwork

Spec == Init /\ [][Next]_vars

\* The quiz view over the built-in document, with an unreliable network.
QuizSpec ==
    Init /\ [][SignIn \/ Nav({"PDF", "QUIZ"}) \/ QuizHandlers \/ QuizNetwork]_vars

\* The chat view over the built-in document, with an unreliable network.
ChatSpec ==
    Init /\ [][SignedIn \/ Nav({"PDF", "CHAT"}) \/ ChatHandlers \/ ChatNetwork]_vars

\* Both retry loops: generate and send with an unreliable network.
RetrySpec ==
    Init /\ [][SignedIn \/ Nav({"QUIZ", "CHAT"}) \/ ClickGenerate \/ QuizNetwork
               \/ TypeInput("hi") \/ SendMessage \/ ChatNetwork]_vars

\* Both retry loops where every fetch settles and every backoff timer
\* fires: a pending promise or timer is not left waiting for ever.
RetryLiveSpec ==
    /\ Init
    /\ [][SignedIn \/ Nav({"QUIZ", "CHAT"}) \/ ClickGenerate \/ QuizNetwork
           \/ TypeInput("hi") \/ SendMessage \/ ChatNetwork]_vars
    /\ WF_vars(QuizNetwork)
    /\ WF_vars(ChatNetwork)

\* fetchQuiz with every fetch answered by a response that parses.
QuizNetworkUp ==
    \E c \in quizCalls, o \in {x \in QuizOutcomes : x.kind = "ok"} :
        QuizAttemptDone(c, o)

\* The progress of one user: quizzes submitted here and attempts saved by
\* another session of the user, under a listener.
ProgressSpec ==
    Init /\ [][SignIn \/ Tick
               \/ (\E ts \in Times : RemoteWrite(1, ts))
               \/ (\E l \in listeners :
                      \E order \in Orders(Len(store[l.user])) : Snapshot(l, order))
               \/ Nav({"PDF", "QUIZ"}) \/ QuizNetworkUp
               \/ (\E w \in WriteOutcomes : Submit(w))]_vars

\* The listeners of useProgressData while users sign in one after the
\* other, their other sessions save attempts, and App unmounts.
ListenerSpec ==
    Init /\ [][(\E u \in {NoUser} \cup Users : AuthStateChanged(u))
               \/ (\E u \in Users : RemoteWrite(u, 0))
               \/ (\E l \in listeners :
                      \E order \in Orders(Len(store[l.user])) : Snapshot(l, order))
               \/ Nav({"PDF", "DASHBOARD"}) \/ AppUnmount]_vars

\* Documents uploaded one after another, extracted and selected under
\* every view, with a network that answers every fetch of fetchQuiz.
DocSpec ==
    Init /\ [][SignedIn \/ Nav(Views) \/ QuizNetworkUp
               \/ (NextUpload <= MaxUploads /\ FileUpload(NextUpload))
               \/ (\E p \in 0..MaxUploads : PdfSelect(p))
               \/ (\E n \in ExtractLens : ExtractionDone(n))]_vars

\* Documents being uploaded, extracted and selected under the quiz view,
\* with a network that answers every fetch at once.
GenSpec ==
    Init /\ [][SignedIn \/ Nav({"PDF", "QUIZ"}) \/ DocNext \/ ClickGenerate
               \/ QuizNetworkUp
               \/ (\E v \in TextInputs \cup PickedOptions : AnswerChange(1, v))
               \/ Submit("ok") \/ CloseFeedback]_vars

----------------------------------------------------------------------------
\* Properties.

\* The pending sends of thread id.
PendingOn(id) == {c \in chatCalls : c.chatId = id}

RECURSIVE Sum(_)
Sum(s) == IF s = <<>> THEN 0 ELSE Head(s) + Sum(Tail(s))

\* C1: at most one quiz generation is in flight for the quiz engine at any
\* time; a generate triggered while one is pending, by the button or by the
\* auto-generate effect, issues no second request.
C1_OneGenerationInFlight == Cardinality(quizCalls) <= 1

\* C2: a thread never has two sends in flight; while the shown thread has a
\* pending send the guard of handleSendMessage rejects every message, and a
\* send issued then appends no message and issues no request.
C2_SendOnBusyThreadRejected ==
    /\ [](\A id \in ChatIds : Cardinality(PendingOn(id)) <= 1)
    /\ [](PendingOn(activeChat.id) # {} => \A m \in ChatInputs : SendRejected(m))
    /\ [][ev'.op = "sendMessage" /\ PendingOn(activeChat.id) # {}
            => ~ev'.accepted /\ UNCHANGED <<chatList, chatCalls, nSends>>]_vars

\* C2 witness: a send was issued on a thread whose send is pending, and was
\* rejected.
C2_Witness ==
    /\ ev.op = "sendMessage" /\ ~ev.accepted
    /\ PendingOn(activeChat.id) # {}

\* C3 as stated: while a send is pending on another thread and none on the
\* shown thread, a message sent on the shown thread is accepted.
C3_OtherThreadAccepts ==
    (chatCalls # {} /\ PendingOn(activeChat.id) = {}) => ~SendRejected("hi")

\* C3, corrected: the busy flag is one for the whole ChatUI: while a send is
\* pending on any thread, every message is rejected on every thread, so at
\* most one send is in flight over all threads.
C3_OneSendInFlight ==
    /\ Cardinality(chatCalls) <= 1
    /\ isTyping <=> chatCalls # {}
    /\ chatCalls # {} => \A m \in ChatInputs : SendRejected(m)

\* C3 witness: a send issued on a thread with no pending send, while another
\* thread's send is pending, was rejected.
C3_Witness ==
    /\ ev.op = "sendMessage" /\ ~ev.accepted
    /\ chatCalls # {} /\ PendingOn(activeChat.id) = {}

\* C4: submit is terminal: once the shown QuestionSet has been submitted,
\* every later edit of its answers is rejected and leaves the answers
\* unchanged, until a new generate replaces the set.
C4_SubmitIsTerminal ==
    [][everSubmitted /\ ev'.op = "answerChange"
         => ~ev'.accepted /\ UNCHANGED currentAnswers]_vars

\* C5: when generate fails, the failure is surfaced and the QuestionSet
\* that existed before the generate call is the one held afterwards.
C5_FailedGenerateKeepsPrior ==
    [][\A c \in quizCalls :
          (ev'.op = "quizDone" /\ ev'.call = c.id /\ ev'.outcome # "value")
             => ev'.alert /\ quizData' = c.prior]_vars

\* The last task ended a retry loop; it ended it without a response value.
LoopDone == ev.op \in {"quizDone", "chatDone"}

LoopExhausted == LoopDone /\ ev.outcome # "value"

\* The texts of the messages of every thread.
ShownTexts ==
    UNION {{chatList[k].history[j].text : j \in DOMAIN chatList[k].history} :
              k \in DOMAIN chatList}

LastText(h) == IF h = <<>> THEN "" ELSE h[Len(h)].text

\* C6: a request makes at most 3 attempts, the n-th after n-1 failures; 3
\* consecutive failures end it with a caller-visible failure after exactly
\* 3 attempts and at least 1s+2s of waits before the last; a successful
\* attempt ends the loop, leaving no attempt of that request pending.
C6_RetryBound ==
    /\ \A c \in quizCalls : c.attempts = c.i + 1 /\ c.attempts <= 3
    /\ \A c \in chatCalls : c.attempts = c.i + 1 /\ c.attempts <= 3
    /\ LoopExhausted
         => /\ ev.attempts = 3
            /\ Len(ev.waits) = 2 /\ Sum(ev.waits) >= 1 + 2
            /\ ev.op = "quizDone" => ev.alert
            /\ ev.op = "chatDone"
                 => \E k \in DOMAIN chatList :
                       LastText(chatList[k].history) = FallbackText
    /\ (LoopDone /\ ev.outcome = "value")
         => /\ ev.attempts <= 3
            /\ ev.op = "quizDone" => \A c \in quizCalls : c.id # ev.call
            /\ ev.op = "chatDone" => \A c \in chatCalls : c.id # ev.call

\* C6 witness: a quiz request failed three times and gave up.
C6_Witness ==
    /\ ev.op = "quizDone" /\ ev.outcome # "value"
    /\ ev.attempts = 3 /\ ev.i = 2

C8_NeverThrows == LoopExhausted => ev.outcome # "throw"

\* C8, corrected: the exhausted chat request returns the fallback reply
\* and never throws, so the catch of handleSendMessage never runs; the
\* exhausted quiz request throws, and handleGenerate catches it, alerts
\* and clears the busy flag.
C8_ChatReturnsQuizThrows ==
    /\ ev.op = "chatDone" => ev.outcome \in {"value", "return"}
    /\ (ev.op = "chatDone" /\ ev.outcome = "return")
         => \E k \in DOMAIN chatList :
               LastText(chatList[k].history) = FallbackText
    /\ CatchText \notin ShownTexts
    /\ (ev.op = "quizDone" /\ ev.kind \in FailureKinds)
         => ev.outcome = "throw" /\ ev.alert /\ ~quizLoading /\ quizData.null

\* C8 witness: an exhausted chat request left the fallback reply in the
\* thread.
C8_Witness ==
    /\ ev.op = "chatDone" /\ ev.outcome = "return" /\ ev.attempts = 3
    /\ ~isTyping
    /\ LastText(activeChat.history) = FallbackText

\* C9: in a quiz request a failed fetch, a non-success status, a response
\* without text and a text that does not parse are handled alike: each
\* uses one of the 3 attempts and is followed by the same wait, and the
\* third of them ends the request with the failure.
C9_UniformRetry ==
    /\ ev.op = "quizAttemptFailed"
         => /\ ev.kind \in FailureKinds
            /\ ev.i < 2
            /\ \E c \in quizCalls :
                  /\ c.id = ev.call /\ c.phase = "sleep"
                  /\ c.attempts = ev.i + 1
                  /\ c.delay = (IF ev.i = 0 THEN 1 ELSE 2)
    /\ (ev.op = "quizDone" /\ ev.kind \in FailureKinds)
         => ev.outcome = "throw" /\ ev.attempts = 3

\* C9 witness: the second attempt's text did not parse and the request
\* waits for its third.
C9_Witness ==
    /\ ev.op = "quizAttemptFailed" /\ ev.kind = "parse" /\ ev.i = 1
    /\ \E c \in quizCalls : c.phase = "sleep" /\ c.delay = 2

\* C10: while the document text is shorter than 50 characters or is still
\* being extracted, a generate (by the button, by the effect after an
\* upload or an extraction, or at mount) issues no request and leaves the
\* QuestionSet, the answers, the submitted flag, the score and the busy
\* flag as they were.
C10_NotReadyNoGenerate ==
    [][(activeView' = "QUIZ" /\ (text'.len < 50 \/ loading'))
         => /\ (activeView = "QUIZ"
                  /\ ev'.op \in {"clickGenerate", "fileUpload", "extractionDone"})
               => /\ UNCHANGED <<quizData, currentAnswers, isSubmitted, score,
                                 quizLoading, quizCalls>>
                  /\ ev'.op = "clickGenerate" => ~ev'.accepted
            /\ activeView # "QUIZ"
               => quizCalls' = {} /\ quizData'.null /\ ~quizLoading']_vars

\* C10 witness: Generate was clicked over a document of 40 characters
\* while a QuestionSet was shown, and nothing was issued.
C10_Witness ==
    /\ ev.op = "clickGenerate" /\ ~ev.accepted
    /\ activeView = "QUIZ" /\ text.len = 40 /\ ~loading
    /\ hasQuiz /\ quizCalls = {}

\* C11: with a document text of 50 characters or more, extraction not
\* loading and no generation busy, a generate is accepted and issues its
\* network call.
C11_FiftyIsReady ==
    [][(ev'.op = "clickGenerate" /\ text.len >= 50 /\ ~loading /\ ~quizLoading)
         => /\ ev'.accepted
            /\ Cardinality(quizCalls') = Cardinality(quizCalls) + 1]_vars

----------------------------------------------------------------------------
\* The provider beyond the prompt: the response schema names the fields of a
\* question but bounds neither the number of questions nor the options, so
\* a text that parses may hold any of these too.
Mcq(rid, opts, ans) ==
    [id |-> rid, type |-> "mcq", options |-> opts,
     correctAnswer |-> ans, modelAnswer |-> Undefined]

RespSaq3 == [hasQuestions |-> TRUE, quizTitle |-> "Saq quiz",
             questions |-> <<TextQ("q1", "saq"), TextQ("q2", "saq"),
                             TextQ("q3", "saq")>>]

RespLaq == [hasQuestions |-> TRUE, quizTitle |-> "Laq quiz",
            questions |-> <<TextQ("q1", "laq"), TextQ("q2", "laq")>>]

RespEmpty == [hasQuestions |-> TRUE, quizTitle |-> "Empty quiz",
              questions |-> <<>>]

RespMcqTwoOptions ==
    [hasQuestions |-> TRUE, quizTitle |-> "Mcq quiz",
     questions |-> <<McqQ("q1", "A"), Mcq("q2", <<"A", "B">>, "B"),
                     McqQ("q3", "C")>>]

RespMcqForeignAnswer ==
    [hasQuestions |-> TRUE, quizTitle |-> "Mcq quiz",
     questions |-> <<McqQ("q1", "A"), McqQ("q2", "E"), McqQ("q3", "C")>>]

ProviderResponses ==
    QuizResponses \cup {RespSaq3, RespLaq, RespEmpty, RespMcqTwoOptions,
                        RespMcqForeignAnswer}

\* The number of questions the prompt of fetchQuiz asks for.
QuestionCount(kind) == IF kind = "laq" THEN 2 ELSE 3

\* fetchQuiz answered at once by any text that parses.
QuizNetworkParses ==
    \E c \in quizCalls, r \in ProviderResponses :
        QuizAttemptDone(c, [kind |-> "ok", value |-> r])

\* Generation of every kind against a provider that returns any text that
\* parses.
InstallSpec ==
    Init /\ [][SignedIn \/ Nav({"PDF", "QUIZ"}) \/ ClickGenerate
               \/ (\E t \in QuizTypes : SetQuizType(t))
               \/ QuizNetworkParses
               \/ (\E k \in 1..3, v \in TextInputs \cup PickedOptions :
                      AnswerChange(k, v))]_vars

\* C12: every QuestionSet that generate installs has exactly 3 questions
\* for a choice or a short request and exactly 2 for a long request,
\* whatever parseable response the provider returns; it is never empty.
C12_FixedCardinality ==
    [][\A c \in quizCalls :
          (ev'.op = "quizDone" /\ ev'.call = c.id /\ ~quizData'.null)
             => Len(quizData'.questions) = QuestionCount(c.quizType)]_vars

\* C13: every choice question of an installed QuestionSet has exactly 4
\* options and its canonical answer is one of them.
C13_ChoiceWellFormed ==
    \A k \in DOMAIN quizData.questions :
        LET q == quizData.questions[k] IN
        q.type = "mcq"
           => /\ Len(q.options) = 4
              /\ \E j \in DOMAIN q.options : q.options[j] = q.correctAnswer

\* The questions of the shown set, and those of them the answers score.
Shown == {quizData.questions[k] : k \in DOMAIN quizData.questions}

Selected(q) == IF q.id \in DOMAIN currentAnswers THEN currentAnswers[q.id] ELSE ""

\* C14: submit counts a choice question correct iff the selected option is
\* exactly its canonical answer, and the score of a choice set is the
\* number of such questions; canonical answers A, B, C with q1 answered A,
\* q2 answered wrongly and q3 unanswered score 1 of 3.
C14_ChoiceScore ==
    (ev.op = "submit" /\ \A q \in Shown : q.type = "mcq")
       => /\ score = Cardinality({q \in Shown : Selected(q) = q.correctAnswer})
          /\ \A k \in DOMAIN explanation.items :
                explanation.items[k].status = "CORRECT"
                   <=> Selected(quizData.questions[k])
                          = quizData.questions[k].correctAnswer
          /\ (/\ Len(quizData.questions) = 3
              /\ \A k \in 1..3 :
                    quizData.questions[k].correctAnswer = <<"A", "B", "C">>[k]
              /\ Selected(quizData.questions[1]) = "A"
              /\ Selected(quizData.questions[2]) = "A"
              /\ Selected(quizData.questions[3]) = "")
                => score = 1 /\ ev.attempt.total = 3

\* C14 witness: the set with canonical answers A, B, C was submitted with q1
\* answered A, q2 answered wrongly and q3 unanswered.
C14_Witness ==
    /\ ev.op = "submit" /\ Len(quizData.questions) = 3
    /\ \A q \in Shown : q.type = "mcq"
    /\ Selected(quizData.questions[1]) = "A"
    /\ Selected(quizData.questions[2]) = "A"
    /\ Selected(quizData.questions[3]) = ""
    /\ score = 1

----------------------------------------------------------------------------
\* A short-answer response whose questions carry no model answer (the
\* schema does not require one).
RespSaqNoModel ==
    [hasQuestions |-> TRUE, quizTitle |-> "Saq quiz",
     questions |-> <<[TextQ("q1", "saq") EXCEPT !.modelAnswer = Undefined],
                     [TextQ("q2", "saq") EXCEPT !.modelAnswer = Undefined]>>]

\* A choice response whose second question carries no correctAnswer (the
\* schema does not require one either).
RespMcqNoAnswer ==
    [hasQuestions |-> TRUE, quizTitle |-> "Mcq quiz",
     questions |-> <<McqQ("q1", "A"),
                     Mcq("q2", <<"A", "B", "C", "D">>, Undefined),
                     McqQ("q3", "C")>>]

QuizNetworkScored ==
    \E c \in quizCalls,
       r \in {RespMcq, RespSaq, RespSaqNoModel, RespLaq, RespMcqNoAnswer} :
        QuizAttemptDone(c, [kind |-> "ok", value |-> r])

\* Answering and submitting, with every text the model types.
ScoreSpec ==
    Init /\ [][SignIn \/ Nav({"PDF", "QUIZ"}) \/ ClickGenerate \/ QuizNetworkScored
               \/ (\E k \in 1..2, v \in TextAnswers \cup PickedOptions :
                      AnswerChange(k, v))
               \/ (\E w \in WriteOutcomes : Submit(w)) \/ CloseFeedback]_vars

\* The typed answers of more than 5 characters.
LongEnough == {"abcdef", "It is unification."}

\* C15: submit counts a short or long question correct iff its answer is
\* non-empty and longer than 5 characters: 18 or 6 characters are correct;
\* 5 characters, the empty text and no answer are incorrect; the model
\* answer plays no part.
C15_TextScore ==
    ev.op = "submit"
       => /\ \A k \in DOMAIN quizData.questions :
                quizData.questions[k].type \in {"saq", "laq"}
                   => (explanation.items[k].status = "CORRECT"
                         <=> Selected(quizData.questions[k]) \in LongEnough)
          /\ (\A q \in Shown : q.type \in {"saq", "laq"})
                => score = Cardinality({q \in Shown : Selected(q) \in LongEnough})

\* C15 witness: a short-answer set without model answers was submitted with
\* the 18-character answer, counted correct, and a 5-character answer,
\* counted incorrect.
C15_Witness ==
    /\ ev.op = "submit" /\ Len(quizData.questions) = 2
    /\ \A q \in Shown : q.type = "saq" /\ q.modelAnswer = Undefined
    /\ Selected(quizData.questions[1]) = "It is unification."
    /\ Selected(quizData.questions[2]) = "abcde"
    /\ score = 1

\* C16: two submits of the same QuestionSet with the same answers yield
\* the same ScoreReport (score, total, feedback transcript), whatever else
\* the component holds at the time, the selected question kind included.
\* Here: a submit of the set submitted before, whose answers read as they
\* did in the transcript of that submit, reproduces score and transcript.
C16_SameInputsSameReport ==
    [][(/\ ev'.op = "submit" /\ everSubmitted
        /\ \A k \in DOMAIN quizData.questions :
              explanation.items[k].your
                 = Feedback(quizData.questions[k],
                            Ans(currentAnswers, quizData.questions[k].id)).your)
         => /\ score' = score
            /\ Len(explanation'.items) = Len(explanation.items)
            /\ explanation' = explanation]_vars

\* C17: every submit hands saveProgress one Attempt whose total is the
\* number of questions of the submitted set (at least 1) and whose score is
\* the number counted correct, so 0 <= score <= total; the store grows only
\* by a submit, on a non-empty set, and by that one Attempt.
C17_OneAttemptPerSubmit ==
    /\ [](ev.op = "submit"
            => /\ ev.attempt.total = Len(quizData.questions)
               /\ ev.attempt.total >= 1
               /\ ev.attempt.score = score
               /\ ev.attempt.score
                     = Cardinality({k \in DOMAIN explanation.items :
                                       explanation.items[k].status = "CORRECT"})
               /\ 0 <= ev.attempt.score /\ ev.attempt.score <= ev.attempt.total)
    /\ [](\A n \in DOMAIN saved :
             0 <= saved[n].score /\ saved[n].score <= saved[n].total
             /\ saved[n].total >= 1)
    /\ [][saved' # saved
            => /\ ev'.op = "submit" /\ hasQuiz
               /\ saved' = Append(saved, ev'.attempt)]_vars
    /\ [][(ev'.op = "submit" /\ ev'.outcome = "ok")
            => Len(saved') = Len(saved) + 1]_vars

\* C17 witness: a submit scoring 1 of 3 wrote its Attempt to the store.
C17_Witness ==
    /\ ev.op = "submit" /\ ev.outcome = "ok"
    /\ ev.attempt.score = 1 /\ ev.attempt.total = 3
    /\ saved # <<>> /\ saved[Len(saved)] = ev.attempt

\* The history of thread id in a chat list.
HistoryOf(list, id) ==
    list[CHOOSE k \in DOMAIN list : list[k].id = id].history

\* C18: an accepted send appends the user message to the shown thread in
\* the step that issues the call; the step that resolves the call appends
\* exactly one assistant message after it, the reply on success and the
\* fixed fallback text when every retry failed, and keeps the user message.
C18_SendAppends ==
    /\ [][(ev'.op = "sendMessage" /\ ev'.accepted)
            => /\ HistoryOf(chatList', activeChatId)
                    = Append(HistoryOf(chatList, activeChatId),
                             UserMessage(inputMessage))
               /\ \E c \in chatCalls' \ chatCalls :
                     /\ chatCalls' = chatCalls \cup {c}
                     /\ c.chatId = activeChatId /\ c.input = inputMessage]_vars
    /\ [][\A c \in chatCalls :
            (ev'.op = "chatDone" /\ ev'.call = c.id)
               => LET h  == HistoryOf(chatList, c.chatId)
                      h2 == HistoryOf(chatList', c.chatId)
                  IN  /\ h # <<>> /\ h[Len(h)] = UserMessage(c.input)
                      /\ Len(h2) = Len(h) + 1
                      /\ SubSeq(h2, 1, Len(h)) = h
                      /\ h2[Len(h2)].role = "assistant"
                      /\ ev'.outcome = "value"
                            => h2[Len(h2)].text \in {"reply", NoReplyText}
                      /\ ev'.outcome # "value"
                            => h2[Len(h2)].text = FallbackText
                      /\ \A k \in DOMAIN chatList :
                            chatList[k].id # c.chatId
                               => chatList'[k] = chatList[k]]_vars

\* C18 witness: a send whose retries all failed left the user message
\* followed by the fallback text in its thread.
C18_Witness ==
    /\ ev.op = "chatDone" /\ ev.outcome = "return"
    /\ Len(activeChat.history) = 2
    /\ activeChat.history[1] = UserMessage("hi")
    /\ activeChat.history[2].text = FallbackText

\* C19: the contents of the request of a send are the thread's prior
\* history, verbatim and in order, followed by exactly one new user entry
\* carrying the current message: nothing is dropped, reordered or
\* duplicated.
C19_PayloadIsHistoryThenMessage ==
    [][(ev'.op = "sendMessage" /\ ev'.accepted)
         => \A c \in chatCalls' \ chatCalls :
               LET h == HistoryOf(chatList, activeChatId) IN
               /\ Len(c.contents) = Len(h) + 1
               /\ SubSeq(c.contents, 1, Len(h)) = h
               /\ c.contents[Len(h) + 1].role = "user"
               /\ c.contents[Len(h) + 1].text.message = inputMessage
               /\ c.contents[Len(h) + 1].text.context
                     = (IF text.len < 2500 THEN text.len ELSE 2500)]_vars

\* C19 witness: a second message was sent on a thread that holds a user
\* message and a reply; its request carries the three entries.
C19_Witness ==
    /\ ev.op = "sendMessage" /\ ev.accepted
    /\ \E c \in chatCalls :
          /\ Len(c.contents) = 3
          /\ c.contents[1] = UserMessage("hi")
          /\ c.contents[2].role = "assistant"
          /\ c.contents[3].text.message = "hi"

\* C20: a rejected store write is not fatal: the submit whose write is
\* rejected sets score, transcript, submitted flag and QuestionSet to what
\* the answers give, as the submit whose write succeeds does, and the
\* rejection changes nothing else but the store's content.
C20_PersistFailureNonFatal ==
    [][ev'.op = "submit"
         => /\ isSubmitted'
            /\ score' = CorrectCount(quizData.questions, currentAnswers)
            /\ score' = ev'.attempt.score
            /\ explanation'.title = quizData.quizTitle
            /\ explanation'.items
                  = [k \in DOMAIN quizData.questions |->
                        Feedback(quizData.questions[k],
                                 Ans(currentAnswers, quizData.questions[k].id))]
            /\ UNCHANGED <<quizData, currentAnswers, quizLoading, quizCalls>>
            /\ ev'.outcome # "ok" => UNCHANGED saved]_vars

\* C20 witness: a submit scoring 1 whose write was rejected shows its
\* result, with nothing in the store.
C20_Witness ==
    /\ ev.op = "submit" /\ ev.outcome = "rejected"
    /\ isSubmitted /\ score = 1 /\ explanation.items # <<>>
    /\ saved = <<>>

\* C29: whenever the built-in document is the selected document the
\* extractor is not loading and the text is the built-in text, also after
\* the built-in document is selected again while an uploaded document is
\* still being extracted.
C29_BuiltInNeverLoading ==
    selectedPdf = MockPdf => ~loading /\ text = MockText

\* C26: each QuestionSet produces at most one Attempt: once a submit has
\* handed the Attempt of the shown QuestionSet to saveProgress, no later
\* submit hands it another, until a generate replaces the set.
C26_OneAttemptPerSet ==
    [][everSubmitted => ev'.op # "submit"]_vars

\* C27: a question the user gave no answer is never counted correct by
\* submit, for every kind of question and every response that parses, a
\* choice question without a canonical answer included.
C27_UnansweredNeverCorrect ==
    ev.op = "submit"
       => \A k \in DOMAIN quizData.questions :
             quizData.questions[k].id \notin DOMAIN currentAnswers
                => explanation.items[k].status # "CORRECT"

\* C25: the kind recorded in the Attempt of a submit, and printed in its
\* feedback transcript, is the kind with which the submitted QuestionSet
\* was generated.
C25_AttemptKindIsGeneratedKind ==
    ev.op = "submit"
       => ev.attempt.type = generatedKind /\ explanation.kind = generatedKind

\* The ids of the shown questions.
ShownIds == {quizData.questions[k].id : k \in DOMAIN quizData.questions}

\* C24: every question of an installed QuestionSet carries a fresh local
\* id in place of the id of the response, distinct within the set and from
\* the ids of the set and the answers held before, and the step that
\* installs the set clears the answers and the submitted flag, so no
\* answer given to an earlier set is attributed to a question of the new
\* one.
C24_FreshIdsCleanInstall ==
    [][(ev'.op = "quizDone" /\ ev'.accepted)
         => /\ Cardinality(ShownIds') = Len(quizData'.questions)
            /\ ShownIds' \subseteq {UuidBase + k : k \in DOMAIN quizData'.questions}
            /\ ShownIds' \cap (ShownIds \cup DOMAIN currentAnswers) = {}
            /\ currentAnswers' = NoAnswers
            /\ ~isSubmitted']_vars

\* C28: the reply (or fallback) of a send is appended to the thread on
\* which the send was issued, directly after that send's user message,
\* also when another thread is shown by then; the histories of all other
\* threads are unchanged; switching and creating threads leave the pending
\* send alone, and every thread, one created while the send was pending
\* included, is still in the list afterwards.
C28_ReplyGoesToSendingThread ==
    /\ [][\A c \in chatCalls :
            (ev'.op = "chatDone" /\ ev'.call = c.id)
               => LET h2 == HistoryOf(chatList', c.chatId) IN
                  /\ Len(h2) = Len(c.history) + 2
                  /\ SubSeq(h2, 1, Len(c.history)) = c.history
                  /\ h2[Len(h2) - 1] = UserMessage(c.input)
                  /\ h2[Len(h2)].role = "assistant"
                  /\ DOMAIN chatList' = DOMAIN chatList
                  /\ \A k \in DOMAIN chatList :
                        /\ chatList'[k].id = chatList[k].id
                        /\ chatList[k].id # c.chatId
                              => chatList'[k] = chatList[k]]_vars
    /\ [][(ev'.op \in {"newChat", "switchChat"} /\ chatCalls # {})
            => /\ chatCalls' = chatCalls
               /\ \A k \in DOMAIN chatList : chatList'[k] = chatList[k]]_vars

\* C28 witness: the send of thread 1 resolved while thread 2 was shown;
\* the reply is in thread 1 after the user message and thread 2 is empty.
C28_Witness ==
    /\ ev.op = "chatDone"
    /\ activeChatId = 2 /\ Len(chatList) = 2
    /\ Len(chatList[1].history) = 2
    /\ chatList[1].history[1] = UserMessage("hi")
    /\ chatList[1].history[2].role = "assistant"
    /\ chatList[2].history = <<>>

\* C30: every accepted generate and every accepted send eventually
\* completes and clears its busy flag, when the request succeeds and when
\* all its retries fail, given that every fetch settles and every timer
\* fires; with the flag clear a new generate or send is accepted again.
C30_BusyEventuallyClears ==
    /\ \A n \in 1..MaxPending :
          (\E c \in quizCalls : c.id = n) ~> (\A c \in quizCalls : c.id # n)
    /\ \A n \in 1..MaxPending :
          (\E c \in chatCalls : c.id = n) ~> (\A c \in chatCalls : c.id # n)
    /\ quizLoading ~> ~quizLoading
    /\ isTyping ~> ~isTyping
    /\ []((activeView = "QUIZ" /\ ~quizLoading) => GenerateButtonEnabled)
    /\ []((activeView = "CHAT" /\ ~isTyping) => ~SendRejected("hi"))

\* C30 witness: a generate whose three attempts failed has completed; the
\* busy flag is clear and Generate is enabled again.
C30_Witness ==
    /\ ev.op = "quizDone" /\ ev.outcome = "throw" /\ ev.attempts = 3
    /\ activeView = "QUIZ" /\ quizCalls = {}
    /\ ~quizLoading /\ GenerateButtonEnabled

\* The uploaded documents of a list.
Uploaded(list) == {list[k] : k \in DOMAIN list} \ {MockPdf}

\* C23: the document list always holds the built-in document and at most
\* one uploaded document; an upload discards the document uploaded before,
\* adds the new one and makes it the selected document.
C23_OneUploadedDocument ==
    /\ [](/\ pdfs[1] = MockPdf
          /\ Cardinality({k \in DOMAIN pdfs : pdfs[k] = MockPdf}) = 1
          /\ Len(pdfs) <= 2
          /\ Cardinality(Uploaded(pdfs)) <= 1
          /\ selectedPdf \in {pdfs[k] : k \in DOMAIN pdfs})
    /\ [][ev'.op = "fileUpload"
            => /\ Uploaded(pdfs') = {selectedPdf'}
               /\ selectedPdf' \notin Uploaded(pdfs)
               /\ Uploaded(pdfs') \cap Uploaded(pdfs) = {}]_vars

\* C23 witness: the second upload replaced the first and is selected.
C23_Witness ==
    /\ ev.op = "fileUpload"
    /\ pdfs = <<MockPdf, 2>> /\ selectedPdf = 2

\* Latest first: no entry is followed by one with a later timestamp.
IsLatestFirst(list) ==
    \A i, j \in DOMAIN list : i < j => list[i].timestamp >= list[j].timestamp

\* C21: progress is at every moment exactly the documents of the last
\* snapshot handed to the listener, ordered by timestamp descending
\* whatever the order in which they were written or listed; only a snapshot
\* changes it, and a submit, whose saveProgress writes to the store, puts
\* no entry of its own into it.
C21_ProgressIsSortedSnapshot ==
    /\ [](/\ IsLatestFirst(progress)
          /\ Len(progress) = Cardinality(snapshot)
          /\ {progress[k] : k \in DOMAIN progress} = {d.data : d \in snapshot}
          /\ \A k \in DOMAIN progress :
                \E d \in snapshot : progress[k].id = d.key)
    /\ [][ev'.op = "submit" => UNCHANGED <<progress, snapshot>>]_vars
    /\ [][progress' # progress => ev'.op = "snapshot"]_vars
    /\ [][ev'.op = "snapshot"
            => \E l \in listeners :
                  snapshot' = {store[l.user][k] : k \in DOMAIN store[l.user]}]_vars

\* C21 witness: the attempt submitted here at time 0 was written after an
\* attempt another session stamped 1; progress lists the later stamp first.
C21_Witness ==
    /\ ev.op = "snapshot" /\ saved # <<>>
    /\ Len(progress) = 2
    /\ progress[1].id = 1 /\ progress[1].timestamp = 1
    /\ progress[2].id = 2 /\ progress[2].timestamp = 0
    /\ progress[2].quizTitle # "Remote quiz"

\* C22: at most one store listener is active at any time, and it is the
\* listener of the present user: when the user changes the listener of the
\* user before is released in the step that creates the new one, and when
\* App unmounts none is left.
C22_OneListener ==
    /\ [](Cardinality(listeners) <= 1)
    /\ [](\A l \in listeners : appMounted /\ db /\ l.user = userId)
    /\ [](HasStore /\ appMounted => \E l \in listeners : l.user = userId)
    /\ [][(userId' # userId /\ userId # NoUser)
            => \A l \in listeners' : l.user # userId]_vars
    /\ [][ev'.op = "snapshot"
            => \E l \in listeners :
                  l.user = userId
                  /\ snapshot' = {store[userId][k] : k \in DOMAIN store[userId]}]_vars

\* C22 witness: user 2 signed in after user 1, whose listener had handed
\* over a snapshot; the one listener is user 2's and has handed over none.
C22_Witness ==
    /\ ev.op = "authStateChanged" /\ userId = 2
    /\ progress # <<>>
    /\ listeners = {[id |-> 1, user |-> 2, seen |-> -1]}

====
